---- MODULE Spec2Model ----
(***************************************************************************)
(* Model of the request coordinator of react-async-effect-state            *)
(* (useManualAsyncState: update / trigger / reset and the promise chain    *)
(* of one admitted operation).  One action per synchronous piece of code:  *)
(* a call of trigger, of a returned handle, of reset, a re-render of the   *)
(* host component, and each promise callback of an admitted operation.     *)
(***************************************************************************)
EXTENDS Integers, Sequences, FiniteSets, TLC

VARIABLES
    opts,           \* effectiveOptions of the hook instance (fixed)
    result,         \* useState cell: [tag, data, err]
    currentState,   \* result[0] as destructured by the latest render
    updateQueued,   \* useRef: queued producer, NoProducer when null
    updateRunning,  \* useRef: number of operations admitted and not drained
    currentNonce,   \* useRef: generation, NullNonce after reset
    ops,            \* the admitted operations (closures of update), in order
    nTrig,          \* number of trigger() calls so far
    nReset,         \* number of reset() calls so far
    hist,           \* per trigger() call: what the call observed and did
    cancelled,      \* a handle ran on a non-empty queue since the latest trigger()
    mounted,        \* the host component has not been unmounted
    call,           \* a call of map / flatMap / combine: arguments and return
    twin            \* two hook instances that differ in disableRequestDedup

vars == <<opts, result, currentState, updateQueued, updateRunning,
          currentNonce, ops, nTrig, nReset, hist, cancelled, mounted, call,
          twin>>

----------------------------------------------------------------------------
(* Bounds of the exploration *)
MaxCalls == 3               \* calls of trigger() and reset() together
MaxConcurrentTriggers == 2  \* trigger() calls when operations overlap
MaxResets == 1              \* calls of reset()
MaxValue == 2               \* payloads of the arguments of map / flatMap / combine

(* AsyncState *)
LOADING == "LOADING"
ERROR == "ERROR"
RESOLVED == "RESOLVED"
PENDING == "PENDING"
AsyncState == {LOADING, ERROR, RESOLVED, PENDING}

(* null of the two refs and of the payload slots; an unset option *)
NoProducer == 0
NullNonce == -1
NoValue == 0
Unset == -1

(* values of debounceDelayMs explored: unset, or 1000 ms *)
DelayValues == {Unset, 1000}

Truthy(n) == n # Unset /\ n # 0

(* debounceOnInitialCall is only read when debounceDelayMs is truthy *)
Options ==
    {o \in [noLoadingOnReload : BOOLEAN,
            disableRequestDedup : BOOLEAN,
            updateStateOnAllCall : BOOLEAN,
            debounceDelayMs : DelayValues,
            debounceOnInitialCall : BOOLEAN,
            initiallyPending : BOOLEAN] :
        o.debounceOnInitialCall => Truthy(o.debounceDelayMs)}

DefaultOptions ==
    [noLoadingOnReload |-> FALSE,
     disableRequestDedup |-> FALSE,
     updateStateOnAllCall |-> FALSE,
     debounceDelayMs |-> Unset,
     debounceOnInitialCall |-> FALSE,
     initiallyPending |-> TRUE]

(* the options argument of a hook call: its fields, and whether it has the *)
(* key initiallyPending at all (fields.initiallyPending is read only then) *)
PassedOptions == [hasInitiallyPending : BOOLEAN, fields : Options]
NoOptions == [hasInitiallyPending |-> FALSE, fields |-> DefaultOptions]

(* { ...{ initiallyPending: dflt }, ...(options || {}) } *)
SpreadOver(dflt, options) ==
    [options.fields EXCEPT
        !.initiallyPending = IF options.hasInitiallyPending THEN @ ELSE dflt]

(* effectiveOptions of useManualAsyncState(producer, options) *)
useManualAsyncStateOptions(options) == SpreadOver(TRUE, options)

(* effectiveOptions of the useManualAsyncState call that                  *)
(* useAsyncEffectState(producer, dependencies, options) makes             *)
useAsyncEffectStateOptions(options) ==
    useManualAsyncStateOptions(
        [hasInitiallyPending |-> TRUE, fields |-> SpreadOver(FALSE, options)])

effectiveOptions ==
    {useManualAsyncStateOptions(o) : o \in PassedOptions}
        \cup {useAsyncEffectStateOptions(o) : o \in PassedOptions}

(* AsyncEffectState values *)
StateOf(tag) == <<tag, NoValue, NoValue>>
ResolvedWith(v) == <<RESOLVED, v, NoValue>>
ErrorWith_keepsData(e) == <<ERROR, result[2], e>>

ErrorWith(e) == <<ERROR, NoValue, e>>

(* no call of map / flatMap / combine is being looked at *)
NoCall == [fn |-> "none"]
(* no pair of hook instances is being compared *)
NoTwin == [a |-> 0, b |-> 0]

initialState_alwaysPending == PENDING

initialState == IF opts.initiallyPending THEN PENDING ELSE LOADING

----------------------------------------------------------------------------
(* update: the queueing decision *)
shouldQueue_negationLost ==
    opts.disableRequestDedup /\ ~Truthy(opts.debounceDelayMs)

shouldQueue_delayIgnored ==
    ~opts.disableRequestDedup

shouldQueue ==
    ~opts.disableRequestDedup /\ ~Truthy(opts.debounceDelayMs)

(* update: the debounce decision, running is updateRunning after += 1 *)
shouldDebounce_countBeforeIncrement(queuedUpdate, running) ==
    IF queuedUpdate THEN FALSE
    ELSE IF Truthy(opts.debounceDelayMs)
         THEN IF running = 0 THEN opts.debounceOnInitialCall ELSE TRUE
         ELSE FALSE

shouldDebounce_initialNeverDelays(queuedUpdate, running) ==
    IF queuedUpdate THEN FALSE
    ELSE IF Truthy(opts.debounceDelayMs)
         THEN IF running = 1 THEN FALSE ELSE TRUE
         ELSE FALSE

shouldDebounce(queuedUpdate, running) ==
    IF queuedUpdate THEN FALSE
    ELSE IF Truthy(opts.debounceDelayMs)
         THEN IF running = 1 THEN opts.debounceOnInitialCall ELSE TRUE
         ELSE FALSE

(* update: the staleness predicate of the operation with captured nonce n, *)
(* evaluated against the refs nonce and queued                             *)
shouldUpdateState_ignoreNonce(n, nonce, queued) ==
    opts.updateStateOnAllCall \/ queued = NoProducer

shouldUpdateState_allCallIgnored(n, nonce, queued) ==
    n = nonce /\ queued = NoProducer

shouldUpdateState(n, nonce, queued) ==
    opts.updateStateOnAllCall \/ (n = nonce /\ queued = NoProducer)

(* trigger: currentNonce.current += 1 (null + 1 is 1) *)
NextNonce(n) == IF n = NullNonce THEN 1 ELSE n + 1

(* update: the Loading transition *)
loadingOnAdmit_reloadFlagOnly(closureState) ==
    ~opts.noLoadingOnReload

loadingOnAdmit(closureState) ==
    ~opts.noLoadingOnReload \/ closureState = PENDING

NewOp(queuedUpdate, updateProducer, closureState, running, nonce, parent) ==
    [producer |-> updateProducer,
     updateNonce |-> nonce,
     queuedUpdate |-> queuedUpdate,
     closureState |-> closureState,
     pc |-> IF shouldDebounce(queuedUpdate, running) THEN "delay" ELSE "ready",
     \* bookkeeping of what happened to the operation
     parent |-> parent,
     admTrig |-> nTrig',
     admReset |-> nReset,
     delayed |-> shouldDebounce(queuedUpdate, running),
     invoked |-> FALSE,
     threw |-> FALSE,
     pub |-> "none"]

update_keepFirstQueued(queuedUpdate, updateProducer, closureState, running, queued, nonce, baseOps, parent) ==
    IF running # 0 /\ shouldQueue
    THEN /\ updateQueued' = IF queued # NoProducer THEN queued
                            ELSE updateProducer
         /\ updateRunning' = running
         /\ result' = result
         /\ ops' = baseOps
    ELSE /\ updateRunning' = running + 1
         /\ updateQueued' = queued
         /\ result' = IF loadingOnAdmit(closureState)
                      THEN StateOf(LOADING) ELSE result
         /\ ops' = Append(baseOps,
                          NewOp(queuedUpdate, updateProducer, closureState,
                                running + 1, nonce, parent))

(* update(queuedUpdate, updateProducer) called in the closure of a render  *)
(* that saw closureState, with the refs holding running / queued / nonce   *)
update(queuedUpdate, updateProducer, closureState, running, queued, nonce, baseOps, parent) ==
    IF running # 0 /\ shouldQueue
    THEN /\ updateQueued' = updateProducer
         /\ updateRunning' = running
         /\ result' = result
         /\ ops' = baseOps
    ELSE /\ updateRunning' = running + 1
         /\ updateQueued' = queued
         /\ result' = IF loadingOnAdmit(closureState)
                      THEN StateOf(LOADING) ELSE result
         /\ ops' = Append(baseOps,
                          NewOp(queuedUpdate, updateProducer, closureState,
                                running + 1, nonce, parent))

----------------------------------------------------------------------------
InFlight == {i \in DOMAIN ops : ops[i].pc # "done"}
Newest(S) == IF S = {} THEN 0 ELSE CHOOSE i \in S : \A j \in S : j <= i

TriggerLimit == IF shouldQueue THEN MaxCalls ELSE MaxConcurrentTriggers

InitWith(O) ==
    /\ opts \in O
    /\ result = StateOf(initialState)
    /\ currentState = initialState
    /\ updateQueued = NoProducer
    /\ updateRunning = 0
    /\ currentNonce = 0
    /\ ops = <<>>
    /\ nTrig = 0
    /\ nReset = 0
    /\ hist = <<>>
    /\ cancelled = FALSE
    /\ mounted = TRUE
    /\ call = NoCall
    /\ twin = NoTwin

Init == InitWith(effectiveOptions)

(* the host re-renders: the hook body runs again and destructures result.  *)
(* currentState is read only in `!noLoadingOnReload || currentState ===`,  *)
(* so the value a render saw is tracked only when noLoadingOnReload is set *)
Render ==
    /\ mounted
    /\ opts.noLoadingOnReload
    /\ currentState # result[1]
    /\ currentState' = result[1]
    /\ UNCHANGED <<opts, mounted, call, twin, result, updateQueued, updateRunning, currentNonce,
                   ops, nTrig, nReset, hist, cancelled>>

(* what the next trigger() call observes: whether update queues it, the    *)
(* value of updateRunning it finds and, when it arrives in dedup mode      *)
(* while an operation is outstanding, that operation and whether its       *)
(* producer has been invoked                                               *)
TriggerRecord ==
    LET busy == updateRunning # 0 /\ ~opts.disableRequestDedup
                                 /\ ~Truthy(opts.debounceDelayMs)
        c == Newest(InFlight)
    IN [queued |-> (updateRunning # 0 /\ shouldQueue),
        before |-> updateRunning,
        cur |-> IF busy THEN c ELSE 0,
        started |-> busy /\ c # 0 /\ ops[c].invoked]

(* trigger(): the producer of the k-th call is identified by k *)
trigger ==
    /\ nTrig + nReset < MaxCalls
    /\ nTrig < TriggerLimit
    /\ nTrig' = nTrig + 1
    /\ currentNonce' = NextNonce(currentNonce)
    /\ update(FALSE, nTrig + 1, currentState, updateRunning, updateQueued,
              NextNonce(currentNonce), ops, 0)
    /\ hist' = Append(hist, TriggerRecord)
    /\ cancelled' = FALSE
    /\ UNCHANGED <<opts, mounted, call, twin, currentState, nReset>>

(* the handle returned by the k-th trigger() *)
cancelHandle_invalidatesNonce(k) ==
    /\ updateQueued' = NoProducer
    /\ currentNonce' = NullNonce
    /\ cancelled' = (cancelled \/ updateQueued # NoProducer)
    /\ UNCHANGED <<opts, mounted, call, twin, result, currentState, updateRunning,
                   ops, nTrig, nReset, hist>>

cancelHandle(k) ==
    /\ updateQueued' = NoProducer
    /\ cancelled' = (cancelled \/ updateQueued # NoProducer)
    /\ UNCHANGED <<opts, mounted, call, twin, result, currentState, updateRunning, currentNonce,
                   ops, nTrig, nReset, hist>>

reset_keepsResult ==
    /\ nTrig + nReset < MaxCalls
    /\ nReset < MaxResets
    /\ nReset' = nReset + 1
    /\ currentNonce' = NullNonce
    /\ updateQueued' = NoProducer
    /\ UNCHANGED <<opts, mounted, call, twin, result, currentState, updateRunning, ops, nTrig,
                   hist, cancelled>>

reset_keepsQueue ==
    /\ nTrig + nReset < MaxCalls
    /\ nReset < MaxResets
    /\ nReset' = nReset + 1
    /\ result' = StateOf(initialState)
    /\ currentNonce' = NullNonce
    /\ UNCHANGED <<opts, mounted, call, twin, currentState, updateQueued,
                   updateRunning, ops, nTrig, hist, cancelled>>

reset_clearsRunning ==
    /\ nTrig + nReset < MaxCalls
    /\ nReset < MaxResets
    /\ nReset' = nReset + 1
    /\ result' = StateOf(initialState)
    /\ currentNonce' = NullNonce
    /\ updateQueued' = NoProducer
    /\ updateRunning' = 0
    /\ UNCHANGED <<opts, mounted, call, twin, currentState, ops, nTrig, hist,
                   cancelled>>

reset ==
    /\ nTrig + nReset < MaxCalls
    /\ nReset < MaxResets
    /\ nReset' = nReset + 1
    /\ result' = StateOf(initialState)
    /\ currentNonce' = NullNonce
    /\ updateQueued' = NoProducer
    /\ UNCHANGED <<opts, mounted, call, twin, currentState, updateRunning, ops, nTrig, hist,
                   cancelled>>

(* startingPromise.then: the callback of operation i; throws says whether  *)
(* the producer raises when called instead of returning a promise          *)
startBody(i, throws) ==
    /\ ops' = [ops EXCEPT ![i] =
                IF ~shouldUpdateState(ops[i].updateNonce, currentNonce,
                                      updateQueued)
                THEN [@ EXCEPT !.pc = "finally"]
                ELSE IF throws
                     THEN [@ EXCEPT !.pc = "finally", !.invoked = TRUE,
                                    !.threw = TRUE]
                     ELSE [@ EXCEPT !.pc = "running", !.invoked = TRUE]]
    /\ UNCHANGED <<opts, mounted, call, twin, result, currentState, updateQueued, updateRunning,
                   currentNonce, nTrig, nReset, hist, cancelled>>

(* Promise.resolve().then(...) of an operation that does not debounce *)
start(i) ==
    /\ ops[i].pc = "ready"
    /\ \E throws \in BOOLEAN : startBody(i, throws)

(* waitPromise(debounceDelayMs) resolves, then the same callback *)
delayElapse(i) ==
    /\ ops[i].pc = "delay"
    /\ \E throws \in BOOLEAN : startBody(i, throws)

(* the producer's promise settles: the .then / .catch callback *)
settle(i, ok) ==
    /\ ops[i].pc = "running"
    /\ LET pub == shouldUpdateState(ops[i].updateNonce, currentNonce,
                                    updateQueued)
       IN /\ result' = IF ~pub THEN result
                       ELSE IF ok THEN ResolvedWith(ops[i].producer)
                       ELSE ErrorWith(ops[i].producer)
          /\ ops' = [ops EXCEPT ![i].pc = "finally",
                                ![i].pub = IF ~pub THEN "none"
                                           ELSE IF ok THEN RESOLVED
                                           ELSE ERROR]
    /\ UNCHANGED <<opts, mounted, call, twin, currentState, updateQueued, updateRunning,
                   currentNonce, nTrig, nReset, hist, cancelled>>

(* .finally: the drain phase of operation i *)
finally_drainOnSuccessOnly(i) ==
    /\ ops[i].pc = "finally"
    /\ UNCHANGED <<opts, mounted, call, twin, currentState, currentNonce, nTrig, nReset, hist,
                   cancelled>>
    /\ LET drained == [ops EXCEPT ![i].pc = "done"]
       IN IF updateQueued # NoProducer /\ ~ops[i].threw
                                      /\ ops[i].pub # ERROR
          THEN update(TRUE, updateQueued, ops[i].closureState,
                      updateRunning - 1, NoProducer, currentNonce,
                      drained, i)
          ELSE /\ updateRunning' = updateRunning - 1
               /\ ops' = drained
               /\ UNCHANGED <<result, updateQueued>>

finally_skippedKeepsCount(i) ==
    /\ ops[i].pc = "finally"
    /\ UNCHANGED <<opts, mounted, call, twin, currentState, currentNonce, nTrig,
                   nReset, hist, cancelled>>
    /\ LET drained == [ops EXCEPT ![i].pc = "done"]
       IN IF updateQueued # NoProducer
          THEN update(TRUE, updateQueued, ops[i].closureState,
                      updateRunning - 1, NoProducer, currentNonce,
                      drained, i)
          ELSE /\ updateRunning' = IF ops[i].invoked THEN updateRunning - 1
                                   ELSE updateRunning
               /\ ops' = drained
               /\ UNCHANGED <<result, updateQueued>>

finally_leavesQueued(i) ==
    /\ ops[i].pc = "finally"
    /\ UNCHANGED <<opts, mounted, call, twin, currentState, currentNonce, nTrig,
                   nReset, hist, cancelled>>
    /\ updateRunning' = updateRunning - 1
    /\ ops' = [ops EXCEPT ![i].pc = "done"]
    /\ UNCHANGED <<result, updateQueued>>

finally_takesWithoutClearing(i) ==
    /\ ops[i].pc = "finally"
    /\ UNCHANGED <<opts, mounted, call, twin, currentState, currentNonce, nTrig,
                   nReset, hist, cancelled>>
    /\ LET drained == [ops EXCEPT ![i].pc = "done"]
       IN IF updateQueued # NoProducer
          THEN update(TRUE, updateQueued, ops[i].closureState,
                      updateRunning - 1, updateQueued, currentNonce,
                      drained, i)
          ELSE /\ updateRunning' = updateRunning - 1
               /\ ops' = drained
               /\ UNCHANGED <<result, updateQueued>>

finally(i) ==
    /\ ops[i].pc = "finally"
    /\ UNCHANGED <<opts, mounted, call, twin, currentState, currentNonce, nTrig, nReset, hist,
                   cancelled>>
    /\ LET drained == [ops EXCEPT ![i].pc = "done"]
       IN IF updateQueued # NoProducer
          THEN update(TRUE, updateQueued, ops[i].closureState,
                      updateRunning - 1, NoProducer, currentNonce,
                      drained, i)
          ELSE /\ updateRunning' = updateRunning - 1
               /\ ops' = drained
               /\ UNCHANGED <<result, updateQueued>>

Next ==
    \/ Render
    \/ trigger
    \/ \E k \in 1..nTrig : cancelHandle(k)
    \/ reset
    \/ \E i \in DOMAIN ops : start(i)
    \/ \E i \in DOMAIN ops : delayElapse(i)
    \/ \E i \in DOMAIN ops : \E ok \in BOOLEAN : settle(i, ok)
    \/ \E i \in DOMAIN ops : finally(i)

Spec == Init /\ [][Next]_vars

----------------------------------------------------------------------------
(* useAsyncEffectState: the hook is driven by useEffect(trigger,           *)
(* dependencies) alone.  The host runs the cleanup of the previous effect, *)
(* which is the handle the previous trigger() returned, and then the       *)
(* effect in the same synchronous commit; at unmount it runs the cleanup   *)
(* of the last effect.  reset is not exposed.                              *)

(* the dependencies changed (or the component mounted): cleanup of the     *)
(* previous effect, then trigger()                                         *)
effect ==
    /\ mounted
    /\ nTrig + nReset < MaxCalls
    /\ nTrig < TriggerLimit
    /\ nTrig' = nTrig + 1
    /\ currentNonce' = NextNonce(currentNonce)
    /\ update(FALSE, nTrig + 1, currentState, updateRunning,
              IF nTrig > 0 THEN NoProducer ELSE updateQueued,
              NextNonce(currentNonce), ops, 0)
    /\ hist' = Append(hist, TriggerRecord)
    /\ cancelled' = FALSE
    /\ UNCHANGED <<opts, mounted, call, twin, currentState, nReset>>

(* the component unmounts after its effect has run: cleanup of the last    *)
(* effect                                                                  *)
unmount_skipsCleanup ==
    /\ mounted /\ nTrig > 0
    /\ mounted' = FALSE
    /\ UNCHANGED <<opts, call, twin, result, currentState, updateQueued,
                   updateRunning, currentNonce, ops, nTrig, nReset, hist,
                   cancelled>>

unmount ==
    /\ mounted /\ nTrig > 0
    /\ mounted' = FALSE
    /\ updateQueued' = NoProducer
    /\ cancelled' = (cancelled \/ updateQueued # NoProducer)
    /\ UNCHANGED <<opts, call, twin, result, currentState, updateRunning,
                   currentNonce, ops, nTrig, nReset, hist>>

(* the promise callbacks of the admitted operations *)
Progress ==
    \E i \in DOMAIN ops :
        \/ start(i)
        \/ delayElapse(i)
        \/ \E ok \in BOOLEAN : settle(i, ok)
        \/ finally(i)

InitEffect == InitWith({useAsyncEffectStateOptions(o) : o \in PassedOptions})

NextEffect ==
    \/ Render
    \/ effect
    \/ unmount
    \/ Progress

(* microtasks run, timers fire and every producer's promise settles *)
SpecEffect == InitEffect /\ [][NextEffect]_vars /\ WF_vars(Progress)

----------------------------------------------------------------------------
(* debounceDelayMs: 0, a delay that is set and falsy *)
ZeroDelayOptions ==
    {[o EXCEPT !.debounceDelayMs = 0] :
        o \in {p \in Options : p.debounceDelayMs = Unset}}

InitZeroDelay == InitWith(ZeroDelayOptions)

(* no operation waits: shouldDebounce needs a truthy debounceDelayMs *)
NextZeroDelay ==
    \/ Render
    \/ trigger
    \/ \E k \in 1..nTrig : cancelHandle(k)
    \/ reset
    \/ \E i \in DOMAIN ops : start(i)
    \/ \E i \in DOMAIN ops : \E ok \in BOOLEAN : settle(i, ok)
    \/ \E i \in DOMAIN ops : finally(i)

SpecZeroDelay == InitZeroDelay /\ [][NextZeroDelay]_vars

----------------------------------------------------------------------------
(* Two hook instances that are given the same options except for           *)
(* disableRequestDedup and receive the same events.  An instance is the    *)
(* record of its options, its useState cell and its refs; the handlers of  *)
(* useManualAsyncState are functions on such a record.                     *)
Coordinator(o) ==
    LET init == IF o.initiallyPending THEN PENDING ELSE LOADING
    IN [options |-> o,
        result |-> StateOf(init),
        currentState |-> init,
        updateQueued |-> NoProducer,
        updateRunning |-> 0,
        currentNonce |-> 0,
        ops |-> <<>>,
        triggers |-> 0,
        resets |-> 0]

shouldQueueOf_delayIgnored(o) ==
    ~o.disableRequestDedup

shouldQueueOf(o) ==
    ~o.disableRequestDedup /\ ~Truthy(o.debounceDelayMs)

shouldDebounceOf(o, queuedUpdate, running) ==
    IF queuedUpdate THEN FALSE
    ELSE IF Truthy(o.debounceDelayMs)
         THEN IF running = 1 THEN o.debounceOnInitialCall ELSE TRUE
         ELSE FALSE

shouldUpdateStateOf(c, n) ==
    \/ c.options.updateStateOnAllCall
    \/ (n = c.currentNonce /\ c.updateQueued = NoProducer)

updateOf(c, queuedUpdate, updateProducer, closureState) ==
    IF c.updateRunning # 0 /\ shouldQueueOf(c.options)
    THEN [c EXCEPT !.updateQueued = updateProducer]
    ELSE LET running == c.updateRunning + 1
             wait == shouldDebounceOf(c.options, queuedUpdate, running)
         IN [c EXCEPT
               !.updateRunning = running,
               !.result = IF \/ ~c.options.noLoadingOnReload
                             \/ closureState = PENDING
                          THEN StateOf(LOADING) ELSE @,
               !.ops = Append(@, [producer |-> updateProducer,
                                  updateNonce |-> c.currentNonce,
                                  queuedUpdate |-> queuedUpdate,
                                  closureState |-> closureState,
                                  pc |-> IF wait THEN "delay" ELSE "ready",
                                  delayed |-> wait,
                                  invoked |-> FALSE,
                                  threw |-> FALSE,
                                  pub |-> "none"])]

canTrigger(c) ==
    /\ c.triggers + c.resets < MaxCalls
    /\ c.triggers < MaxConcurrentTriggers
triggerOf(c) ==
    updateOf([c EXCEPT !.currentNonce = NextNonce(@), !.triggers = @ + 1],
             FALSE, c.triggers + 1, c.currentState)

canReset(c) ==
    /\ c.triggers + c.resets < MaxCalls
    /\ c.resets < MaxResets
resetOf(c) ==
    [c EXCEPT !.result = StateOf(IF c.options.initiallyPending
                                 THEN PENDING ELSE LOADING),
              !.currentNonce = NullNonce,
              !.updateQueued = NoProducer,
              !.resets = @ + 1]

canRender(c) ==
    c.options.noLoadingOnReload /\ c.currentState # c.result[1]
renderOf(c) == [c EXCEPT !.currentState = c.result[1]]

(* operation i of instance c is at the given point of its promise chain *)
At(c, i, pc) == i \in DOMAIN c.ops /\ c.ops[i].pc = pc

thenOf(c, i, throws) ==
    [c EXCEPT !.ops[i] =
        IF ~shouldUpdateStateOf(c, c.ops[i].updateNonce)
        THEN [@ EXCEPT !.pc = "finally"]
        ELSE IF throws
             THEN [@ EXCEPT !.pc = "finally", !.invoked = TRUE,
                            !.threw = TRUE]
             ELSE [@ EXCEPT !.pc = "running", !.invoked = TRUE]]

settleOf(c, i, ok) ==
    LET pub == shouldUpdateStateOf(c, c.ops[i].updateNonce)
    IN [c EXCEPT
          !.result = IF ~pub THEN @
                     ELSE IF ok THEN ResolvedWith(c.ops[i].producer)
                     ELSE ErrorWith(c.ops[i].producer),
          !.ops[i].pc = "finally",
          !.ops[i].pub = IF ~pub THEN "none"
                         ELSE IF ok THEN RESOLVED ELSE ERROR]

finallyOf(c, i) ==
    LET drained == [c EXCEPT !.ops[i].pc = "done",
                             !.updateRunning = @ - 1]
    IN IF c.updateQueued # NoProducer
       THEN updateOf([drained EXCEPT !.updateQueued = NoProducer],
                     TRUE, c.updateQueued, c.ops[i].closureState)
       ELSE drained

(* the hook's own state is not involved *)
HookIdle ==
    UNCHANGED <<opts, result, currentState, updateQueued, updateRunning,
                currentNonce, ops, nTrig, nReset, hist, cancelled, mounted,
                call>>

(* an event reaches both instances; an instance that has no use for it     *)
(* (no such operation, or not at that point) is left as it is              *)
bothTrigger ==
    /\ canTrigger(twin.a)
    /\ twin' = [a |-> triggerOf(twin.a),
                b |-> IF canTrigger(twin.b) THEN triggerOf(twin.b)
                      ELSE twin.b]
    /\ HookIdle

bothReset ==
    /\ canReset(twin.a)
    /\ twin' = [a |-> resetOf(twin.a),
                b |-> IF canReset(twin.b) THEN resetOf(twin.b) ELSE twin.b]
    /\ HookIdle

bothRender ==
    /\ canRender(twin.a)
    /\ twin' = [a |-> renderOf(twin.a),
                b |-> IF canRender(twin.b) THEN renderOf(twin.b)
                      ELSE twin.b]
    /\ HookIdle

bothThen(i, pc, throws) ==
    /\ At(twin.a, i, pc)
    /\ twin' = [a |-> thenOf(twin.a, i, throws),
                b |-> IF At(twin.b, i, pc) THEN thenOf(twin.b, i, throws)
                      ELSE twin.b]
    /\ HookIdle

bothStart(i) == \E throws \in BOOLEAN : bothThen(i, "ready", throws)

bothDelayElapse(i) == \E throws \in BOOLEAN : bothThen(i, "delay", throws)

bothSettle(i, ok) ==
    /\ At(twin.a, i, "running")
    /\ twin' = [a |-> settleOf(twin.a, i, ok),
                b |-> IF At(twin.b, i, "running")
                      THEN settleOf(twin.b, i, ok) ELSE twin.b]
    /\ HookIdle

bothFinally(i) ==
    /\ At(twin.a, i, "finally")
    /\ twin' = [a |-> finallyOf(twin.a, i),
                b |-> IF At(twin.b, i, "finally") THEN finallyOf(twin.b, i)
                      ELSE twin.b]
    /\ HookIdle

(* the option records with a positive debounceDelayMs *)
DebounceOptions == {o \in Options : Truthy(o.debounceDelayMs)}

InitTwin ==
    /\ opts = DefaultOptions
    /\ result = StateOf(initialState)
    /\ currentState = initialState
    /\ updateQueued = NoProducer
    /\ updateRunning = 0
    /\ currentNonce = 0
    /\ ops = <<>>
    /\ nTrig = 0
    /\ nReset = 0
    /\ hist = <<>>
    /\ cancelled = FALSE
    /\ mounted = TRUE
    /\ call = NoCall
    /\ \E o \in {p \in DebounceOptions : ~p.disableRequestDedup} :
          twin = [a |-> Coordinator([o EXCEPT !.disableRequestDedup = FALSE]),
                  b |-> Coordinator([o EXCEPT !.disableRequestDedup = TRUE])]

NextTwin ==
    \/ bothTrigger
    \/ bothReset
    \/ bothRender
    \/ \E i \in 1..MaxCalls : bothStart(i)
    \/ \E i \in 1..MaxCalls : bothDelayElapse(i)
    \/ \E i \in 1..MaxCalls : \E ok \in BOOLEAN : bothSettle(i, ok)
    \/ \E i \in 1..MaxCalls : bothFinally(i)

SpecTwin == InitTwin /\ [][NextTwin]_vars

(* what a user of the hook and its producers can observe of an instance:   *)
(* the published state, the producers that were invoked and the producers  *)
(* on whose behalf waitPromise was called                                  *)
Observable(c) ==
    [published |-> c.result,
     invocations |-> {c.ops[i].producer :
                         i \in {j \in DOMAIN c.ops : c.ops[j].invoked}},
     delays |-> {c.ops[i].producer :
                    i \in {j \in DOMAIN c.ops : c.ops[j].delayed}}]

----------------------------------------------------------------------------
(* map, flatMap and combine.  An AsyncEffectState array is a value with an *)
(* identity: ref tells the arrays apart, so that `return input` differs    *)
(* from returning a new array with the same elements.                      *)
Input1Ref == 1
Input2Ref == 2
MapperRef == 3      \* the array the mapper given to flatMap returns
NewRef == 4         \* an array literal evaluated by map or combine
Obj(ref, state) == [ref |-> ref, state |-> state]

Values == 1..MaxValue
InputStates ==
    {StateOf(PENDING), StateOf(LOADING)}
        \cup {ErrorWith(e) : e \in Values}
        \cup {ResolvedWith(v) : v \in Values}

(* the functions passed as mapper / combiner *)
mapper(v) == v + 10
flatMapper(v) ==
    Obj(MapperRef, IF v = 1 THEN ErrorWith(v + 10) ELSE ResolvedWith(v + 10))
combiner(v1, v2) == 10 * v1 + v2

(* each function gives the array it returns and how often it called the    *)
(* function it was passed                                                  *)
flatMap(input) ==
    IF input.state[1] # RESOLVED
    THEN [ret |-> input, calls |-> 0]
    ELSE [ret |-> flatMapper(input.state[2]), calls |-> 1]

map_copiesInput(input) ==
    IF input.state[1] # RESOLVED
    THEN [ret |-> Obj(NewRef, input.state), calls |-> 0]
    ELSE [ret |-> Obj(NewRef, <<RESOLVED, mapper(input.state[2]), NoValue>>),
          calls |-> 1]

map(input) ==
    IF input.state[1] # RESOLVED
    THEN [ret |-> input, calls |-> 0]
    ELSE [ret |-> Obj(NewRef, <<RESOLVED, mapper(input.state[2]), NoValue>>),
          calls |-> 1]

combine_loadingBeforePending(input1, input2) ==
    IF input1.state[1] = ERROR THEN [ret |-> input1, calls |-> 0]
    ELSE IF input2.state[1] = ERROR THEN [ret |-> input2, calls |-> 0]
    ELSE IF input1.state[1] = LOADING THEN [ret |-> input1, calls |-> 0]
    ELSE IF input2.state[1] = LOADING THEN [ret |-> input2, calls |-> 0]
    ELSE IF input1.state[1] = PENDING THEN [ret |-> input1, calls |-> 0]
    ELSE IF input2.state[1] = PENDING THEN [ret |-> input2, calls |-> 0]
    ELSE [ret |-> Obj(NewRef, <<RESOLVED,
                               combiner(input1.state[2], input2.state[2]),
                               NoValue>>),
          calls |-> 1]

combine(input1, input2) ==
    IF input1.state[1] = ERROR THEN [ret |-> input1, calls |-> 0]
    ELSE IF input2.state[1] = ERROR THEN [ret |-> input2, calls |-> 0]
    ELSE IF input1.state[1] = PENDING THEN [ret |-> input1, calls |-> 0]
    ELSE IF input2.state[1] = PENDING THEN [ret |-> input2, calls |-> 0]
    ELSE IF input1.state[1] = LOADING THEN [ret |-> input1, calls |-> 0]
    ELSE IF input2.state[1] = LOADING THEN [ret |-> input2, calls |-> 0]
    ELSE [ret |-> Obj(NewRef, <<RESOLVED,
                               combiner(input1.state[2], input2.state[2]),
                               NoValue>>),
          calls |-> 1]

(* the arguments of a call that has not been made yet *)
CallArgs ==
    {[fn |-> "args", input1 |-> Obj(Input1Ref, a),
      input2 |-> Obj(Input2Ref, b)] : a \in InputStates, b \in InputStates}

Returned(fn, r) ==
    [fn |-> fn, input1 |-> call.input1, input2 |-> call.input2,
     ret |-> r.ret, calls |-> r.calls]

CoordinatorIdle ==
    UNCHANGED <<opts, result, currentState, updateQueued, updateRunning,
                currentNonce, ops, nTrig, nReset, hist, cancelled, mounted,
                twin>>

callMap ==
    /\ call.fn = "args"
    /\ call' = Returned("map", map(call.input1))
    /\ CoordinatorIdle

callFlatMap ==
    /\ call.fn = "args"
    /\ call' = Returned("flatMap", flatMap(call.input1))
    /\ CoordinatorIdle

callCombine ==
    /\ call.fn = "args"
    /\ call' = Returned("combine", combine(call.input1, call.input2))
    /\ CoordinatorIdle

InitCombinators ==
    /\ opts = DefaultOptions
    /\ result = StateOf(initialState)
    /\ currentState = initialState
    /\ updateQueued = NoProducer
    /\ updateRunning = 0
    /\ currentNonce = 0
    /\ ops = <<>>
    /\ nTrig = 0
    /\ nReset = 0
    /\ hist = <<>>
    /\ cancelled = FALSE
    /\ mounted = TRUE
    /\ call \in CallArgs
    /\ twin = NoTwin

NextCombinators ==
    \/ callMap
    \/ callFlatMap
    \/ callCombine

SpecCombinators == InitCombinators /\ [][NextCombinators]_vars

----------------------------------------------------------------------------
(* Vocabulary of the properties *)

DedupActive ==
    ~opts.disableRequestDedup /\ ~Truthy(opts.debounceDelayMs)
DebounceSet == Truthy(opts.debounceDelayMs)

(* the producer supplied by the k-th trigger() has been invoked *)
Invoked(k) == \E i \in DOMAIN ops : ops[i].producer = k /\ ops[i].invoked
NInvoked == Cardinality({i \in DOMAIN ops : ops[i].invoked})
Quiescent == InFlight = {} /\ updateQueued = NoProducer

(* operation i publishes Resolved or Error in this step *)
Publishes(i) == ops[i].pub = "none" /\ ops'[i].pub # "none"
(* the startingPromise.then callback of operation i runs in this step *)
Starts(i) == ops[i].pc \in {"delay", "ready"} /\ ops'[i].pc # ops[i].pc
(* no trigger() and no reset() since operation i was admitted *)
Undisturbed(i) == nTrig = ops[i].admTrig /\ nReset = ops[i].admReset

----------------------------------------------------------------------------
(* C1: with updateStateOnAllCall=false an operation publishes Resolved or  *)
(* Error only if no trigger() has been called since it was admitted and no *)
(* producer is queued.                                                     *)
C1_PublishOnlyIfNoNewerTrigger ==
    [][\A i \in DOMAIN ops :
          (~opts.updateStateOnAllCall /\ Publishes(i))
              => (nTrig = ops[i].admTrig /\ updateQueued = NoProducer)]_vars

(* C2: an operation admitted before a reset() never publishes Resolved or  *)
(* Error after that reset() (stated for updateStateOnAllCall=false, where  *)
(* stale outcomes are meant to be suppressed).                             *)
C2_NoPublishAfterReset ==
    [][\A i \in DOMAIN ops :
          (~opts.updateStateOnAllCall /\ Publishes(i))
              => nReset = ops[i].admReset]_vars

(* the triggers that arrived while an operation was outstanding *)
Overlapping == {k \in DOMAIN hist : hist[k].before > 0}
MaxOf(S) == CHOOSE x \in S : \A y \in S : y <= x

(* every trigger after the first arrived while operation 1 was outstanding, *)
(* and no reset() or handle has emptied the queue since                    *)
CollapsedOntoFirst ==
    /\ nTrig >= 3
    /\ \A k \in 2..nTrig : hist[k].before > 0 /\ hist[k].cur = 1
    /\ nReset = 0
    /\ ~cancelled

(* C3 as stated: with dedup active and updateStateOnAllCall=false, three   *)
(* or more triggers of which all but the first arrive while the first      *)
(* operation is outstanding give exactly 2 producer invocations in total.  *)
C3_ExactlyTwoInvocations ==
    (DedupActive /\ ~opts.updateStateOnAllCall /\ CollapsedOntoFirst
                 /\ Quiescent)
        => NInvoked = 2

(* C3 amended: with dedup active, the producer of a trigger that arrived   *)
(* while an operation was outstanding is not invoked before that operation *)
(* has drained; and when the further triggers all arrived after the first  *)
(* operation's producer had been invoked, there are never more than 2      *)
(* invocations and exactly 2 once everything has drained, the second being *)
(* the producer of the latest trigger.                                     *)
C3_CollapseAfterStart ==
    DedupActive =>
        /\ \A k \in Overlapping :
              Invoked(k) => ops[hist[k].cur].pc = "done"
        /\ (CollapsedOntoFirst /\ \A k \in 2..nTrig : hist[k].started)
              => /\ NInvoked <= 2
                 /\ Quiescent => (NInvoked = 2 /\ Invoked(nTrig))

C3_Witness ==
    /\ opts = DefaultOptions
    /\ CollapsedOntoFirst
    /\ \A k \in 2..nTrig : hist[k].started
    /\ Quiescent
    /\ NInvoked = 2

(* C4: in dedup mode the queue holds the producer of the most recent       *)
(* trigger that was queued; the follow-up run started by the drain uses    *)
(* that producer, and the producer of a trigger that was overwritten in    *)
(* the queue by a later one is never invoked.                              *)
C4_LatestQueuedProducerRuns ==
    DedupActive =>
        /\ updateQueued # NoProducer => updateQueued = MaxOf(Overlapping)
        /\ \A i \in DOMAIN ops :
              ops[i].queuedUpdate =>
                  ops[i].producer =
                      MaxOf({k \in Overlapping : k <= ops[i].admTrig})
        /\ \A k1, k2 \in Overlapping :
              (k1 < k2 /\ hist[k1].cur = hist[k2].cur) => ~Invoked(k1)

C4_Witness ==
    /\ DedupActive
    /\ nTrig = 3
    /\ hist[2].cur = 1 /\ hist[3].cur = 1
    /\ \E i \in DOMAIN ops :
          ops[i].queuedUpdate /\ ops[i].producer = 3 /\ ops[i].invoked
    /\ ~Invoked(2)

(* C5: with dedup active at most one operation is admitted and not         *)
(* drained: updateRunning is 0 or 1 and counts the operations in flight,   *)
(* at most one producer is running, and the queued producer belongs to no  *)
(* admitted operation while it waits in the queue.                         *)
C5_OneAtATime ==
    DedupActive =>
        /\ updateRunning \in {0, 1}
        /\ Cardinality(InFlight) = updateRunning
        /\ updateQueued # NoProducer =>
              /\ updateRunning = 1
              /\ \A i \in DOMAIN ops : ops[i].producer # updateQueued

C5_Witness ==
    /\ opts = DefaultOptions
    /\ updateQueued # NoProducer
    /\ \E i \in DOMAIN ops : ops[i].pc = "running"

----------------------------------------------------------------------------
(* Properties of the configurations without dedup *)

NoDedupNoDebounce == opts.disableRequestDedup /\ ~DebounceSet
(* the start callback of every admitted operation has run *)
AllStarted == \A i \in DOMAIN ops : ops[i].pc \notin {"delay", "ready"}
(* operation i leaves its debounce wait in this step *)
DelayEnds(i) == ops[i].pc = "delay" /\ ops'[i].pc # "delay"

(* C6 as stated: with disableRequestDedup=true and no debounce, n triggers *)
(* give exactly n producer invocations (no reset involved).                *)
C6_EveryTriggerInvokes ==
    (NoDedupNoDebounce /\ nReset = 0 /\ AllStarted) => NInvoked = nTrig

(* C6 amended: with disableRequestDedup=true and no debounce every trigger *)
(* admits its own operation at once, never queued and never delayed, and   *)
(* the producer is invoked when the start callback of the operation runs   *)
(* provided updateStateOnAllCall is true or no trigger() and no reset()    *)
(* happened between the admission and that callback.                       *)
C6_AdmittedAtOnce ==
    /\ [](NoDedupNoDebounce =>
            /\ Len(ops) = nTrig
            /\ updateQueued = NoProducer
            /\ updateRunning = Cardinality(InFlight)
            /\ \A k \in DOMAIN ops :
                  /\ ops[k].producer = k
                  /\ ~ops[k].queuedUpdate
                  /\ ~ops[k].delayed)
    /\ [][NoDedupNoDebounce =>
            \A i \in DOMAIN ops :
                (Starts(i) /\ (opts.updateStateOnAllCall \/ Undisturbed(i)))
                    => ops'[i].invoked]_vars

C6_Witness ==
    /\ NoDedupNoDebounce
    /\ ~opts.updateStateOnAllCall
    /\ nTrig = 2
    /\ \A i \in 1..2 : ops[i].pc = "running"

(* C7: with debounceDelayMs set and updateStateOnAllCall=false, an         *)
(* operation whose debounce wait saw a newer trigger() or a reset() does   *)
(* not invoke its producer when the wait ends.                             *)
C7_DisturbedWaitSkipsProducer ==
    [][(DebounceSet /\ ~opts.updateStateOnAllCall) =>
          \A i \in DOMAIN ops :
              (DelayEnds(i) /\ ~Undisturbed(i))
                  => (~ops'[i].invoked /\ ops'[i].pc = "finally")]_vars

(* C8: with debounceDelayMs set and debounceOnInitialCall=false, a trigger *)
(* that finds no operation outstanding is admitted without a Delay call, a *)
(* trigger that finds one outstanding is admitted with a Delay call, and   *)
(* no producer is invoked while its operation is in the debounce wait.     *)
C8_DelayOnlyWhenOverlapping ==
    (DebounceSet /\ ~opts.debounceOnInitialCall) =>
        /\ Len(ops) = nTrig
        /\ \A k \in DOMAIN ops :
              /\ ops[k].producer = k
              /\ ops[k].delayed <=> hist[k].before > 0
              /\ ops[k].pc = "delay" => ~ops[k].invoked

C8_Witness ==
    /\ DebounceSet /\ ~opts.debounceOnInitialCall
    /\ nTrig = 2
    /\ ~ops[1].delayed /\ ops[1].invoked
    /\ ops[2].delayed /\ ops[2].pc = "delay"

(* C9: with debounceDelayMs set and debounceOnInitialCall=true every       *)
(* trigger admits exactly one operation that calls the Delay primitive,    *)
(* and no producer is invoked while its operation is in the debounce wait. *)
C9_EveryTriggerDelays ==
    (DebounceSet /\ opts.debounceOnInitialCall) =>
        /\ Len(ops) = nTrig
        /\ \A k \in DOMAIN ops :
              /\ ops[k].producer = k
              /\ ops[k].delayed
              /\ ops[k].pc = "delay" => ~ops[k].invoked

C9_Witness ==
    /\ DebounceSet /\ opts.debounceOnInitialCall
    /\ nTrig = 1 /\ hist[1].before = 0
    /\ ops[1].delayed /\ ops[1].invoked

(* C10 as stated: when debounceDelayMs is set, the producer of every       *)
(* trigger that waited out its delay is invoked; none is dropped (no reset *)
(* involved).                                                              *)
C10_NoProducerDropped ==
    (DebounceSet /\ nReset = 0) =>
        \A i \in DOMAIN ops :
            (ops[i].delayed /\ ops[i].pc \in {"finally", "done"})
                => ops[i].invoked

(* C10 amended: when debounceDelayMs is set, the producer of a trigger is  *)
(* invoked when its delay has elapsed if updateStateOnAllCall is true or   *)
(* if no trigger() and no reset() happened during the wait; with           *)
(* updateStateOnAllCall=false an operation whose captured generation is no *)
(* longer the current one when its delay ends is dropped: its producer is  *)
(* never invoked.                                                          *)
C10_InvokedUnlessStale ==
    [][DebounceSet =>
          \A i \in DOMAIN ops :
              DelayEnds(i) =>
                  /\ (opts.updateStateOnAllCall \/ Undisturbed(i))
                        => ops'[i].invoked
                  /\ (~opts.updateStateOnAllCall
                          /\ ops[i].updateNonce # currentNonce)
                        => (~ops'[i].invoked /\ ops'[i].pc = "finally")]_vars

C10_Witness ==
    /\ DebounceSet
    /\ nReset = 0
    /\ \E i, j \in DOMAIN ops :
          /\ ops[i].delayed /\ ops[i].pc = "done" /\ ~ops[i].invoked
          /\ ops[j].delayed /\ ops[j].invoked

----------------------------------------------------------------------------
(* C11 as stated: invoking the handle returned by a trigger() call clears  *)
(* the queued producer if and only if that producer was queued by the same *)
(* trigger() call; the handle of an earlier trigger leaves a producer      *)
(* queued by a later trigger in place.                                     *)
C11_HandleClearsOnlyOwnProducer ==
    [][\A k \in 1..nTrig :
          cancelHandle(k) =>
              ((updateQueued # NoProducer /\ updateQueued' = NoProducer)
                  <=> updateQueued = k)]_vars

C13_NoPublishAfterOwnHandle ==
    [][\A k \in 1..nTrig : \A i \in DOMAIN ops :
          (ops[i].producer = k /\ updateQueued = NoProducer)
              => ~Publishes(i)]_vars

(* C14: with noLoadingOnReload=true, once the published state is Resolved  *)
(* or Error, no trigger() and no queued retry publishes Loading (stated    *)
(* without reset(), which publishes the initial state again, and for a     *)
(* host whose latest render has seen the published state).                 *)
C14_NoLoadingAfterOutcome ==
    [][(/\ opts.noLoadingOnReload
        /\ nReset' = 0
        /\ currentState = result[1]
        /\ result[1] \in {RESOLVED, ERROR})
          => result'[1] # LOADING]_vars

(* the producer's promise of operation i settles in this step *)
Settles(i) == ops[i].pc = "running" /\ ops'[i].pc # "running"
(* the state operation i published *)
Outcome(i) ==
    IF ops[i].pub = RESOLVED THEN ResolvedWith(ops[i].producer)
    ELSE ErrorWith(ops[i].producer)

(* C15: with updateStateOnAllCall=true every admitted operation invokes    *)
(* its producer when its start callback runs and publishes its outcome     *)
(* when the producer settles, whatever triggers arrived or were queued in  *)
(* the meantime.                                                           *)
C15_AllCallsPublish ==
    [][opts.updateStateOnAllCall =>
          \A i \in DOMAIN ops :
              /\ Starts(i) => ops'[i].invoked
              /\ Settles(i) =>
                    /\ ops'[i].pub \in {RESOLVED, ERROR}
                    /\ result' = Outcome(i)']_vars

(* operation 1 published after operation 2, admitted later, had published: *)
(* the published state is the stale outcome of the first trigger           *)
C15_Witness ==
    /\ opts.updateStateOnAllCall
    /\ nReset = 0 /\ Len(ops) >= 2
    /\ ops[1].producer = 1 /\ ops[2].producer = 2
    /\ ops[1].pub # "none" /\ ops[2].pub # "none"
    /\ result = Outcome(1)

(* C16: until trigger() is called no operation exists and no producer is   *)
(* invoked, and the published state is Pending for useManualAsyncState     *)
(* without options, Loading for useManualAsyncState with                   *)
(* initiallyPending=false, and Loading for useAsyncEffectState without     *)
(* options.                                                                *)
C16_InitialState ==
    nTrig = 0 =>
        /\ ops = <<>> /\ NInvoked = 0
        /\ opts = useManualAsyncStateOptions(NoOptions)
              => result = StateOf(PENDING)
        /\ \A o \in PassedOptions :
              (/\ o.hasInitiallyPending /\ ~o.fields.initiallyPending
               /\ opts = useManualAsyncStateOptions(o))
                  => result = StateOf(LOADING)
        /\ opts = useAsyncEffectStateOptions(NoOptions)
              => result = StateOf(LOADING)

(* a slot created without options whose reset() was called, and on which   *)
(* trigger() has not been called yet                                       *)
C16_Witness ==
    /\ opts = useManualAsyncStateOptions(NoOptions)
    /\ nTrig = 0 /\ nReset = 1
    /\ result = StateOf(PENDING)

(* C17: after a single trigger(), with no reset(), the published state is  *)
(* Loading from admission until the producer settles, and from then on     *)
(* Resolved with the producer's value or Error with the producer's error   *)
(* (a producer that raises when called never settles).                     *)
C17_SingleTrigger ==
    (nTrig = 1 /\ nReset = 0) =>
        /\ Len(ops) = 1
        /\ ops[1].pc \in {"delay", "ready", "running"}
              => result = StateOf(LOADING)
        /\ (ops[1].pc \in {"finally", "done"} /\ ~ops[1].threw)
              => /\ ops[1].invoked
                 /\ ops[1].pub \in {RESOLVED, ERROR}
                 /\ result = Outcome(1)

C17_Witness ==
    /\ opts = DefaultOptions
    /\ nTrig = 1 /\ nReset = 0
    /\ ops[1].pc = "done"
    /\ result = ResolvedWith(1)

(* the producer of operation i failed: it raised when called, or its       *)
(* rejection was published                                                 *)
Failed(i) == ops[i].threw \/ ops[i].pub = ERROR
(* the .finally callback of operation i runs in this step *)
Drains(i) == ops[i].pc = "finally" /\ ops'[i].pc = "done"

(* C18: the drain phase of an operation decrements updateRunning once and, *)
(* when a producer is queued at that time, takes it, empties the queue and *)
(* admits it as the follow-up operation, whether the producer of the       *)
(* operation failed, succeeded or was skipped: a failed operation drains   *)
(* exactly like a successful one.                                          *)
C18_FailedOperationDrains ==
    [][\A i \in DOMAIN ops :
          Drains(i) =>
              IF updateQueued = NoProducer
              THEN /\ updateRunning' = updateRunning - 1
                   /\ Len(ops') = Len(ops)
              ELSE /\ updateQueued' = NoProducer
                   /\ Len(ops') = Len(ops) + 1
                   /\ ops'[Len(ops')].producer = updateQueued
                   /\ ops'[Len(ops')].queuedUpdate
                   /\ ops'[Len(ops')].parent = i
                   /\ ops'[Len(ops')].pc = "ready"
                   /\ updateRunning' = (updateRunning - 1) + 1]_vars

(* the producer of operation 1 failed while a producer was queued; the     *)
(* drain phase admitted the queued producer, which has been invoked        *)
C18_Witness ==
    /\ Len(ops) >= 2
    /\ Failed(1) /\ ops[1].pc = "done"
    /\ ops[2].queuedUpdate /\ ops[2].parent = 1
    /\ ops[2].invoked

(* the producer of operation i is called in this step and raises; it is    *)
(* called only when the operation is not stale                             *)
Raises(i) == Starts(i) /\ ops'[i].threw

(* C19: when the producer of an operation that is not stale fails, by      *)
(* raising when it is called or by rejecting its promise, the published    *)
(* state becomes Error with the producer's error.                          *)
C19_FailurePublishesError ==
    [][\A i \in DOMAIN ops :
          (Raises(i) \/ (Settles(i) /\ ops'[i].pub = ERROR))
              => result' = ErrorWith(ops[i].producer)]_vars

Discarded(k) ==
    /\ hist[k].queued
    /\ updateQueued # k
    /\ \A i \in DOMAIN ops : ops[i].producer # k
(* an operation is admitted in this step *)
Admits == Len(ops') = Len(ops) + 1
Admitted == ops'[Len(ops')]

(* C21: a producer that is queued when reset() is called is discarded by   *)
(* it and stays discarded, so it is never invoked; a drain phase admits a  *)
(* follow-up only from a non-empty queue, that is, after a reset() only    *)
(* when a trigger() has queued a producer since.                           *)
C21_ResetDiscardsQueuedProducer ==
    /\ [](\A k \in DOMAIN hist : Discarded(k) => ~Invoked(k))
    /\ [][/\ \A k \in DOMAIN hist :
               \/ (nReset' # nReset /\ updateQueued = k)
               \/ Discarded(k)
               => Discarded(k)'
           /\ \A i \in DOMAIN ops :
               (Drains(i) /\ Admits) =>
                   /\ updateQueued # NoProducer
                   /\ Admitted.producer = updateQueued]_vars

(* the second trigger was queued behind operation 1, reset() discarded it, *)
(* and operation 1 has drained without a follow-up                         *)
C21_Witness ==
    /\ nReset = 1 /\ nTrig = 2
    /\ hist[2].queued /\ Discarded(2)
    /\ ~cancelled
    /\ Len(ops) = 1 /\ ops[1].pc = "done" /\ ops[1].admReset = 0
    /\ Quiescent

(* C22: in the dependency-driven binding the handle of the previous        *)
(* trigger runs before the next trigger and at unmount.  After unmount the *)
(* queue is empty and no operation is admitted any more, so a producer     *)
(* that was queued at unmount is never invoked; the unmount changes no     *)
(* admitted operation, and the operations in flight at unmount run to the  *)
(* end of their drain phase.                                               *)
C22_UnmountDropsQueuedOnly ==
    /\ [](~mounted => updateQueued = NoProducer)
    /\ [](\A k \in DOMAIN hist : Discarded(k) => ~Invoked(k))
    /\ [][/\ ~mounted => ~Admits
          /\ (mounted /\ ~mounted') =>
                 /\ UNCHANGED <<ops, updateRunning, currentNonce, result>>
                 /\ \A k \in DOMAIN hist :
                       updateQueued = k => Discarded(k)'
          /\ \A k \in DOMAIN hist : Discarded(k) => Discarded(k)']_vars
    /\ (~mounted ~> (~mounted /\ updateRunning = 0))

(* the component was unmounted while operation 1 was in flight and the     *)
(* second trigger was queued: the queued producer was dropped, operation 1 *)
(* invoked its producer, published and drained                             *)
C22_Witness ==
    /\ ~mounted /\ cancelled
    /\ nTrig = 2 /\ hist[2].queued /\ Discarded(2)
    /\ Len(ops) = 1 /\ ops[1].pc = "done"
    /\ ops[1].invoked /\ ops[1].pub # "none"
    /\ updateRunning = 0

(* C23: every published value has one of the four tags, a value payload    *)
(* only under Resolved and an error payload only under Error; Pending and  *)
(* Loading carry no payload.                                               *)
C23_PayloadMatchesTag ==
    /\ Len(result) = 3
    /\ result[1] \in AsyncState
    /\ result[2] # NoValue => result[1] = RESOLVED
    /\ result[3] # NoValue => result[1] = ERROR

(* an Error was published over an earlier Resolved: the value slot was     *)
(* emptied                                                                 *)
C23_Witness ==
    /\ result[1] = ERROR /\ result[3] # NoValue /\ result[2] = NoValue
    /\ \E i \in DOMAIN ops : ops[i].pub = RESOLVED /\ ops[i].pc = "done"
    /\ opts.noLoadingOnReload /\ nReset = 0

Tag(x) == x.state[1]

C25_MapAndFlatMap ==
    call.fn \in {"map", "flatMap"} =>
        LET a == call.input1
        IN /\ Tag(a) # RESOLVED => (call.ret = a /\ call.calls = 0)
           /\ (Tag(a) = RESOLVED /\ call.fn = "map")
                 => /\ call.ret.state = ResolvedWith(mapper(a.state[2]))
                    /\ call.calls = 1
           /\ (Tag(a) = RESOLVED /\ call.fn = "flatMap")
                 => /\ call.ret = flatMapper(a.state[2])
                    /\ call.calls = 1

(* flatMap of a Resolved input handed back the Error its mapper returned *)
C25_Witness ==
    /\ call.fn = "flatMap"
    /\ Tag(call.input1) = RESOLVED
    /\ Tag(call.ret) = ERROR /\ call.ret.ref = MapperRef

(* everything has drained and the published state is the outcome of the    *)
(* producer the latest trigger() supplied                                  *)
SettledOnLast ==
    /\ updateRunning = 0 /\ updateQueued = NoProducer
    /\ nTrig > 0 => result \in {ResolvedWith(nTrig), ErrorWith(nTrig)}

(* C26: with updateStateOnAllCall=false, in the dependency-driven binding  *)
(* (no reset, a handle runs only right before the next trigger), when the  *)
(* component stays mounted, every delay elapses and every invoked producer *)
(* settles (none raises when called), eventually updateRunning is 0, the   *)
(* queue is empty and the published state is the Resolved or Error outcome *)
(* of the producer of the last trigger, for good.                          *)
C26_EventuallyLastOutcome ==
    <>[](\/ opts.updateStateOnAllCall
         \/ ~mounted
         \/ \E i \in DOMAIN ops : ops[i].threw
         \/ SettledOnLast)

(* three triggers, the earlier operations went stale, and the slot has     *)
(* come to rest on the outcome of the third producer                       *)
C26_Witness ==
    /\ ~opts.updateStateOnAllCall /\ mounted
    /\ nTrig = 3 /\ SettledOnLast
    /\ \A i \in DOMAIN ops : ~ops[i].threw
    /\ \E i \in DOMAIN ops : ops[i].pc = "done" /\ ops[i].pub = "none"

(* C27: at every admission of an operation, by trigger() or by the drain   *)
(* phase, Loading is published if and only if noLoadingOnReload is false   *)
(* or the published result has tag Pending at that instant.                *)
C27_LoadingIffPublishedPending ==
    [][Admits =>
          IF ~opts.noLoadingOnReload \/ result[1] = PENDING
          THEN result' = StateOf(LOADING)
          ELSE result' = result]_vars

(* C28: the generation a trigger() assigns is greater than every           *)
(* generation assigned before, so it never equals the generation captured  *)
(* by an operation admitted earlier, also when the trigger() follows a     *)
(* reset().                                                                *)
C28_GenerationNeverReused ==
    [][nTrig' = nTrig + 1 =>
          \A i \in DOMAIN ops : ops[i].updateNonce < currentNonce']_vars

Done == {i \in DOMAIN ops : ops[i].pc = "done"}

(* C29: updateRunning is a natural number equal to the number of admitted  *)
(* operations that have not finished their drain phase (waiting for the    *)
(* delay, not yet started, running, or skipped / settled and about to      *)
(* drain): each admitted operation has been counted once and each drained  *)
(* one uncounted once, whatever became of its producer.                    *)
C29_RunningCountsUndrained ==
    /\ updateRunning \in Nat
    /\ updateRunning = Cardinality(InFlight)
    /\ updateRunning + Cardinality(Done) = Len(ops)

(* three operations have drained, one skipped as stale, one whose producer *)
(* failed and one whose producer resolved, and the count is back to 0      *)
C29_Witness ==
    /\ updateRunning = 0 /\ Len(ops) = 3 /\ Done = {1, 2, 3}
    /\ \E i \in Done : ~ops[i].invoked
    /\ \E i \in Done : Failed(i)
    /\ \E i \in Done : ops[i].pub = RESOLVED

(* C30: reset() leaves updateRunning and the admitted operations as they   *)
(* are, so with dedup active a trigger() issued while an operation is      *)
(* still outstanding, also one admitted before a reset(), is queued and    *)
(* admits nothing.                                                         *)
C30_ResetKeepsRunningCount ==
    [][/\ nReset' # nReset => UNCHANGED <<updateRunning, ops>>
       /\ (nTrig' = nTrig + 1 /\ DedupActive /\ InFlight # {})
             => (updateQueued' = nTrig' /\ ~Admits
                    /\ updateRunning' = updateRunning)]_vars

(* operation 1 was in flight across a reset(); the trigger() after the     *)
(* reset was queued behind it and admitted by its drain phase              *)
C30_Witness ==
    /\ DedupActive /\ nReset = 1 /\ nTrig = 2
    /\ hist[2].queued
    /\ Len(ops) = 2
    /\ ops[1].admReset = 0 /\ ops[1].pc = "done"
    /\ ops[2].producer = 2 /\ ops[2].parent = 1 /\ ops[2].admReset = 1
    /\ updateRunning = 1

(* C31: a trigger() is queued instead of admitted if and only if           *)
(* updateRunning > 0, disableRequestDedup is false and debounceDelayMs is  *)
(* unset; whenever debounceDelayMs is set to a number, 0 included, every   *)
(* trigger() is admitted.                                                  *)
C31_QueuedIffDedupAndNoDelaySet ==
    [][nTrig' = nTrig + 1 =>
          (~Admits <=> (/\ updateRunning > 0
                        /\ ~opts.disableRequestDedup
                        /\ opts.debounceDelayMs = Unset))]_vars

(* a trigger() that update queues in this step *)
QueuedTrigger == nTrig' = nTrig + 1 /\ ~Admits
(* the operation that was in flight when the k-th trigger() was queued *)
InFlightAt(k) == IF hist[k].queued THEN hist[k].cur ELSE 0

(* C32 as stated: a queued trigger() changes only currentNonce and         *)
(* updateQueued, and the operation in flight when it was queued never      *)
(* publishes its outcome afterwards.                                       *)
C32_QueuedTriggerSilencesInFlight ==
    [][/\ QueuedTrigger =>
              /\ currentNonce' = NextNonce(currentNonce)
              /\ updateQueued' = nTrig'
              /\ UNCHANGED <<updateRunning, result, ops>>
       /\ \A i \in DOMAIN ops :
              Publishes(i) => \A k \in DOMAIN hist : InFlightAt(k) # i]_vars

(* C32: a queued trigger() increments currentNonce, overwrites             *)
(* updateQueued with its producer and leaves updateRunning, the published  *)
(* result and every operation (no Loading, no delay, no invocation) as     *)
(* they were; with updateStateOnAllCall=false no operation publishes while *)
(* a producer is queued.                                                   *)
C32_QueuedTriggerFrame ==
    [][/\ QueuedTrigger =>
              /\ currentNonce' = NextNonce(currentNonce)
              /\ updateQueued' = nTrig'
              /\ UNCHANGED <<updateRunning, result, ops>>
       /\ \A i \in DOMAIN ops :
              (~opts.updateStateOnAllCall /\ Publishes(i))
                  => updateQueued = NoProducer]_vars

(* the second of two queued producers is in the queue, and the operation   *)
(* that was in flight has settled without publishing                      *)
C32_Witness ==
    /\ ~opts.updateStateOnAllCall
    /\ nTrig = 3 /\ hist[2].queued /\ hist[3].queued
    /\ updateQueued = 3
    /\ ops[1].invoked /\ ops[1].pc = "finally" /\ ops[1].pub = "none"

(* C33: whenever a producer is queued an operation is outstanding          *)
(* (updateRunning >= 1) that has not reached the end of its drain phase,   *)
(* so its .finally callback will take the producer; the callback takes,    *)
(* clears and re-admits in one step.                                       *)
C33_QueuedImpliesRunning ==
    updateQueued # NoProducer =>
        /\ updateRunning >= 1
        /\ \E i \in DOMAIN ops : ops[i].pc # "done"

(* a drain phase has re-admitted a queued producer, and behind that        *)
(* follow-up operation the next producer is queued                         *)
C33_Witness ==
    /\ updateQueued = 3 /\ updateRunning = 1
    /\ Len(ops) = 2 /\ ops[2].queuedUpdate /\ ops[1].pc = "done"

(* C34: with debounceDelayMs set every trigger() is admitted at once,      *)
(* whatever is outstanding, and when the delay of an operation ends with   *)
(* no trigger() or reset() since its admission its producer is invoked in  *)
(* that step while the producers of earlier operations keep running: the   *)
(* operations are not serialized.                                          *)
C34_DebounceDoesNotSerialize ==
    [][DebounceSet =>
          /\ nTrig' = nTrig + 1 =>
                 (Admits /\ updateRunning' = updateRunning + 1)
          /\ \A i \in DOMAIN ops :
                 (DelayEnds(i) /\ Undisturbed(i)) =>
                     /\ ops'[i].invoked
                     /\ \A j \in DOMAIN ops :
                            ops[j].pc = "running" => ops'[j].pc = "running"]_vars

(* the delay of the second operation has elapsed while the producer of the *)
(* first was running: two producers are in flight                         *)
C34_Witness ==
    /\ DebounceSet
    /\ Len(ops) = 2 /\ updateRunning = 2
    /\ ops[2].delayed
    /\ ops[1].pc = "running" /\ ops[2].pc = "running"

(* C35: in dedup mode with no reset(), whenever trigger() has been called  *)
(* and nothing is outstanding (updateRunning = 0, no operation in flight,  *)
(* no producer queued) the published state is Resolved or Error, never     *)
(* Loading.                                                                *)
C35_NeverLeftLoading ==
    (/\ DedupActive /\ nReset = 0 /\ nTrig >= 1
     /\ Quiescent /\ updateRunning = 0)
        => result[1] \in {RESOLVED, ERROR}

(* the operations that have invoked the producer supplied by the k-th      *)
(* trigger()                                                               *)
InvocationsOf(k) == {i \in DOMAIN ops : ops[i].producer = k /\ ops[i].invoked}

(* C36: the number of producer invocations never exceeds the number of     *)
(* trigger() calls, the producer supplied by each trigger() is invoked at  *)
(* most once, and every invoked producer was supplied by a trigger() that  *)
(* has been called.                                                        *)
C36_AtMostOneInvocationPerTrigger ==
    /\ NInvoked <= nTrig
    /\ \A k \in 1..nTrig : Cardinality(InvocationsOf(k)) <= 1
    /\ \A i \in DOMAIN ops : ops[i].producer \in 1..nTrig
    /\ updateQueued # NoProducer => updateQueued \in 1..nTrig

(* three triggers, two invocations: the first producer and, through the    *)
(* drain phase, the third; the second was overwritten in the queue         *)
C36_Witness ==
    /\ nTrig = 3 /\ NInvoked = 2 /\ Quiescent
    /\ Cardinality(InvocationsOf(1)) = 1
    /\ InvocationsOf(2) = {}
    /\ Cardinality(InvocationsOf(3)) = 1
    /\ ops[2].queuedUpdate

(* updateStateOnAllCall=true with dedup active *)
AllCallDedup == opts.updateStateOnAllCall /\ DedupActive
(* every operation was admitted after the ones before it had drained *)
Serialized ==
    /\ Cardinality(InFlight) <= 1
    /\ \A i, j \in DOMAIN ops : i < j => ops[i].pc = "done"
(* trigger() has been called, nothing is outstanding, no reset() was       *)
(* called and every invoked producer settled                               *)
AllSettled ==
    /\ nTrig >= 1 /\ nReset = 0
    /\ Quiescent /\ updateRunning = 0
    /\ \A i \in DOMAIN ops : ~ops[i].threw
NewestOutcome == result \in {ResolvedWith(nTrig), ErrorWith(nTrig)}

(* C37 as stated: with updateStateOnAllCall=true and dedup active the      *)
(* operations are serialized and, once every producer has settled, the     *)
(* published outcome is that of the producer the latest trigger()          *)
(* supplied.                                                               *)
C37_NewestOutcomeLast ==
    AllCallDedup => (Serialized /\ (AllSettled => NewestOutcome))

(* C37: with updateStateOnAllCall=true and dedup active the operations are *)
(* serialized, so their outcomes are published in admission order, and     *)
(* once every producer has settled the published outcome is that of the    *)
(* producer the latest trigger() supplied, provided no handle has          *)
(* discarded that producer from the queue.                                 *)
C37_NewestOutcomeLastUnlessDiscarded ==
    AllCallDedup => (Serialized /\ ((AllSettled /\ ~cancelled) => NewestOutcome))

(* three triggers: the first operation published its outcome, then the     *)
(* follow-up published that of the third producer                          *)
C37_Witness ==
    /\ AllCallDedup /\ AllSettled /\ ~cancelled
    /\ nTrig = 3 /\ Len(ops) = 2
    /\ ops[1].pub # "none" /\ ops[2].pub # "none"
    /\ ops[2].producer = 3 /\ result = Outcome(2)

(* C38: when dedup is not active (disableRequestDedup=true or              *)
(* debounceDelayMs set) no producer is ever queued, so no operation is a   *)
(* queued retry admitted by a drain phase; and in every mode a queued      *)
(* retry never waits for the delay.                                        *)
C38_NoQueueWithoutDedup ==
    /\ ~DedupActive =>
           /\ updateQueued = NoProducer
           /\ \A i \in DOMAIN ops : ~ops[i].queuedUpdate /\ ops[i].parent = 0
           /\ \A k \in DOMAIN hist : ~hist[k].queued
    /\ \A i \in DOMAIN ops : ops[i].queuedUpdate => ~ops[i].delayed

(* dedup disabled: the second trigger() arrived while the first operation  *)
(* was outstanding and was admitted, not queued; both have drained and no  *)
(* follow-up was started                                                   *)
C38_Witness ==
    /\ opts.disableRequestDedup
    /\ nTrig = 2 /\ hist[2].before = 1
    /\ Len(ops) = 2 /\ ops[1].pc = "done" /\ ops[2].pc = "done"
    /\ updateQueued = NoProducer

(* C39: with a positive debounceDelayMs the hook instance with             *)
(* disableRequestDedup=false and the one with disableRequestDedup=true,    *)
(* given the same trigger, reset, render, delay-elapse and completion      *)
(* events, show the same published state, the same producer invocations    *)
(* and the same waitPromise calls after every event, and queue nothing.    *)
C39_DedupFlagUnobservableWithDelay ==
    /\ Observable(twin.a) = Observable(twin.b)
    /\ twin.a.updateQueued = NoProducer /\ twin.b.updateQueued = NoProducer
    /\ twin.a.updateRunning = twin.b.updateRunning

(* both instances admitted the second trigger while the first operation    *)
(* was outstanding, delayed it, invoked both producers and published the   *)
(* outcome of the second                                                   *)
C39_Witness ==
    /\ ~twin.a.options.disableRequestDedup
    /\ twin.b.options.disableRequestDedup
    /\ twin.a.triggers = 2 /\ Len(twin.a.ops) = 2 /\ Len(twin.b.ops) = 2
    /\ Observable(twin.a).invocations = {1, 2}
    /\ Observable(twin.b).invocations = {1, 2}
    /\ 2 \in Observable(twin.a).delays
    /\ twin.a.ops[2].pc = "done" /\ twin.b.ops[2].pc = "done"
    /\ twin.a.result = ResolvedWith(2) /\ twin.b.result = ResolvedWith(2)

====
